---- MODULE Spec2Model ----
(***************************************************************************)
(* Verification model of the chat client's session reconciler              *)
(* (src/src/providers/Stream.tsx, StreamSession) and of the Thread         *)
(* component's state that hangs off it (src/src/components/thread/         *)
(* index.tsx): the polled snapshot, the poll timers, the in-flight poll    *)
(* requests, the reconciled message list, the Q/A cache and the            *)
(* "already reported error" marker.                                        *)
(***************************************************************************)
EXTENDS Integers, Sequences, FiniteSets, Bags, TLC

\* ---------------------------------------------------------------- bounds
\* Most poll requests in flight at once.
MaxInflight ==
  2

\* ------------------------------------------------------------ value model
\* null / undefined where the other values are strings.
None ==
  "none"

\* null / undefined where the other values are lists or records: an optional
\* value is Null or Some(x).
Null ==
  <<>>

Some(x) ==
  <<x>>

\* Session keys (thread ids); threadId is None when no thread is open.
Keys ==
  {"K1", "K2"}

\* A text is a sequence of tokens. A token stands for one character or for one
\* run of characters that the patterns treat as a unit:
\*   k = "nl"     "\n"
\*   k = "sp"     " "
\*   k = "star"   "*"
\*   k = "digit"  a decimal digit
\*   k = "dot"    "."
\*   k = "word"   a run of characters with no whitespace, "*" or line break (v)
\*   k = "full"   "here are N vetting answers from the matched v:", in any case
\*   k = "teaser" "The matched v has answered N vetting questions.", in any case
\*   k = "marker" "the counterparty has answered your question:", in any case
Tok(k, v) ==
  [k |-> k, v |-> v]

NL ==
  Tok("nl", "")

SP ==
  Tok("sp", "")

STAR ==
  Tok("star", "")

DIGIT ==
  Tok("digit", "1")

DOT ==
  Tok("dot", "")

Word(v) ==
  Tok("word", v)

\* String.prototype.toLowerCase on the values the tokens carry.
Lower(v) ==
  CASE v = "Pets?" -> "pets?"
    [] v = "Yes" -> "yes"
    [] v = "Buyer" -> "buyer"
    [] v = "SELLER" -> "seller"
    [] v = "Opposing Party" -> "opposing party"
    [] v = "NULL" -> "null"
    [] OTHER -> v

toLowerCase(s) ==
  [i \in 1..Len(s) |-> Tok(s[i].k, Lower(s[i].v))]

\* \s
IsSpace(t) ==
  t.k \in {"sp", "nl"}

\* [^\n*]
IsAnswerChar(t) ==
  t.k \notin {"nl", "star"}

SubSeqOrEmpty(s, a, b) ==
  IF a > b THEN <<>> ELSE SubSeq(s, a, b)

MaxOf(S) ==
  CHOOSE x \in S : \A y \in S : y <= x

MinOf(S) ==
  CHOOSE x \in S : \A y \in S : x <= y

\* String.prototype.trim
trim(s) ==
  LET solid == {i \in 1..Len(s) : ~IsSpace(s[i])}
  IN IF solid = {} THEN <<>> ELSE SubSeq(s, MinOf(solid), MaxOf(solid))

\* question.trim().toLowerCase()
NormalizeQuestion(q) ==
  toLowerCase(trim(q))

\* Positions i at which the text holds "\n\n".
DoubleNewlines(s) ==
  {i \in 1..(Len(s) - 1) : s[i].k = "nl" /\ s[i + 1].k = "nl"}

\* A variant of extractCounterpartyMessage that accepts the marker at the start
\* of any "\n\n"-separated part and returns the text from there on.
extractCounterpartyMessage_AnySegment(content) ==
  LET at == {i \in DoubleNewlines(content) :
               i + 2 <= Len(content) /\ content[i + 2].k = "marker"}
  IN IF at = {} THEN Null
     ELSE Some(trim(SubSeqOrEmpty(content, MinOf(at) + 2, Len(content))))

\* A variant of extractCounterpartyMessage that returns the whole trimmed text
\* when the text ends in a counterparty message.
extractCounterpartyMessage_WholeText(content) ==
  LET breaks == DoubleNewlines(content)
  IN IF \E i \in breaks : i + 2 <= Len(content) /\ content[i + 2].k = "marker"
     THEN LET lastPart == trim(SubSeqOrEmpty(content, MaxOf(breaks) + 2, Len(content)))
          IN IF lastPart # <<>> /\ lastPart[1].k = "marker"
             THEN Some(trim(content))
             ELSE Null
     ELSE Null

extractCounterpartyMessage(content) ==
  LET breaks == DoubleNewlines(content)
  IN IF \E i \in breaks : i + 2 <= Len(content) /\ content[i + 2].k = "marker"
     THEN LET lastDoubleNewline == MaxOf(breaks)
              lastPart == trim(SubSeqOrEmpty(content, lastDoubleNewline + 2, Len(content)))
          IN IF lastPart # <<>> /\ lastPart[1].k = "marker"
             THEN Some(lastPart)
             ELSE Null
     ELSE Null

\* Last index of the run of digits that starts at p (p - 1 when there is none).
DigitsEnd(s, p) ==
  MaxOf({j \in (p - 1)..Len(s) : \A i \in p..j : s[i].k = "digit"})

\* Last index of the run of [^*] that starts at p (p - 1 when there is none).
NonStarEnd(s, p) ==
  MaxOf({j \in (p - 1)..Len(s) : \A i \in p..j : s[i].k # "star"})

\* Last index of the run of [^\n*] that starts at p (p - 1 when there is none).
AnswerLineEnd(s, p) ==
  MaxOf({j \in (p - 1)..Len(s) : \A i \in p..j : IsAnswerChar(s[i])})

\* /\*\*\d+\./ matches at p.
EntryPrefixAt(s, p) ==
  /\ p + 3 <= Len(s)
  /\ s[p].k = "star"
  /\ s[p + 1].k = "star"
  /\ LET d == DigitsEnd(s, p + 2)
     IN d >= p + 2 /\ d + 1 <= Len(s) /\ s[d + 1].k = "dot"

\* ([^*]+)\*\* with the group from from to to: Null, or the trimmed group and
\* the index of the last token matched.
EntryGroup(s, from, to) ==
  IF to >= from /\ to + 2 <= Len(s) /\ s[to + 1].k = "star" /\ s[to + 2].k = "star"
  THEN Some([question |-> trim(SubSeqOrEmpty(s, from, to)), end |-> to + 2])
  ELSE Null

\* \s*([^*]+)\*\* from from on: the two take the whole run of [^*].
EntryFrom(s, from) ==
  EntryGroup(s, from, NonStarEnd(s, from))

\* /\*\*(\d+)\.\s*([^*]+)\*\*/ anchored at p: Null, or the trimmed group 2 and
\* the index of the last token matched.
EntryAt(s, p) ==
  IF ~EntryPrefixAt(s, p) THEN Null
  ELSE EntryFrom(s, DigitsEnd(s, p + 2) + 2)

\* The answer group from the line that ends at j on: each further
\* (?:\n(?!\*\*\d+\.)[^\n*]+) extends it by one line.
RECURSIVE AnswerEnd(_, _)
AnswerEnd(s, j) ==
  IF /\ j + 2 <= Len(s)
     /\ s[j + 1].k = "nl"
     /\ ~EntryPrefixAt(s, j + 2)
     /\ IsAnswerChar(s[j + 2])
  THEN AnswerEnd(s, AnswerLineEnd(s, j + 2))
  ELSE j

\* The answer group of qaPattern, which starts at a, after the entry matched.
AnswerGroup(s, entry, a) ==
  LET z == AnswerEnd(s, AnswerLineEnd(s, a))
  IN Some([question |-> entry[1].question,
           answer |-> trim(SubSeq(s, a, z)),
           end |-> z])

\* The lengths \s* can take after an entry that ends at e: a run of whitespace
\* that is followed by "\n" and one [^\n*].
AnswerGaps(s, e) ==
  {k \in 0..(Len(s) - e) :
     /\ \A i \in (e + 1)..(e + k) : IsSpace(s[i])
     /\ e + k + 2 <= Len(s)
     /\ s[e + k + 1].k = "nl"
     /\ IsAnswerChar(s[e + k + 2])}

\* \s*\n and the answer group after the entry matched: \s* takes the longest
\* of the lengths gaps.
AnswerAfterGap(s, entry, gaps) ==
  IF gaps = {} THEN Null
  ELSE AnswerGroup(s, entry, entry[1].end + MaxOf(gaps) + 2)

\* The rest of qaPattern after its entry part matched (entry), or did not (Null).
AnswerAfter(s, entry) ==
  IF entry = Null THEN Null
  ELSE AnswerAfterGap(s, entry, AnswerGaps(s, entry[1].end))

\* qaPattern anchored at p: Null, or the pair and the index of the last token
\* matched.
QAAt(s, p) ==
  AnswerAfter(s, EntryAt(s, p))

RECURSIVE FullPairs(_, _)
\* The matches of qaPattern from p on, given the match m anchored at p.
FullPairsAfter(s, p, m) ==
  IF m = Null THEN FullPairs(s, p + 1)
  ELSE <<[question |-> m[1].question, answer |-> m[1].answer]>>
       \o FullPairs(s, m[1].end + 1)

\* The matches of qaPattern from p on, left to right.
FullPairs(s, p) ==
  IF p > Len(s) THEN <<>>
  ELSE FullPairsAfter(s, p, QAAt(s, p))

RECURSIVE TeaserPairs(_, _)
\* The matches of questionPattern from p on, given the match m anchored at p.
TeaserPairsAfter(s, p, m) ==
  IF m = Null THEN TeaserPairs(s, p + 1)
  ELSE <<[question |-> m[1].question, answer |-> <<>>]>>
       \o TeaserPairs(s, m[1].end + 1)

\* The matches of questionPattern from p on, each with an empty answer.
TeaserPairs(s, p) ==
  IF p > Len(s) THEN <<>>
  ELSE TeaserPairsAfter(s, p, EntryAt(s, p))

\* value is Null (undefined, or not a string) or Some(string).
normalizeOpposingParty(value) ==
  IF value = Null THEN None
  ELSE LET v == toLowerCase(trim(value[1]))
       IN IF v = <<Word("buyer")>> THEN "buyer"
          ELSE IF v = <<Word("seller")>> THEN "seller"
          ELSE None

\* A variant of ResolveParty that lets a usable hint override the header.
ResolveParty_HintFirst(captured, hint) ==
  IF normalizeOpposingParty(hint) # None THEN normalizeOpposingParty(hint)
  ELSE IF Lower(captured) \in {"buyer", "seller"} THEN Lower(captured)
  ELSE "buyer"

\* capturedParty when it is "buyer" or "seller", else the normalized hint, else
\* "buyer".
ResolveParty(captured, hint) ==
  IF Lower(captured) \in {"buyer", "seller"} THEN Lower(captured)
  ELSE IF normalizeOpposingParty(hint) # None THEN normalizeOpposingParty(hint)
  ELSE "buyer"

FirstOfKind(s, k) ==
  SelectSeq(s, LAMBDA t : t.k = k)[1]

HasKind(s, k) ==
  \E i \in 1..Len(s) : s[i].k = k

\* A variant of QAContent that hands the whole text to the patterns.
QAContent_WholeText(content) ==
  content

\* The content the patterns are run on: the text before the last "\n\n" when
\* the text ends in a counterparty message, else the whole text.
QAContent(content) ==
  IF extractCounterpartyMessage(content) # Null
  THEN SubSeqOrEmpty(content, 1, MaxOf(DoubleNewlines(content)) - 1)
  ELSE content

\* The result for the pairs found: null when there is none.
Extraction(qaPairs, opposingParty, mode) ==
  IF qaPairs = <<>> THEN Null
  ELSE Some([qaPairs |-> qaPairs, opposingParty |-> opposingParty, mode |-> mode])

\* The full-header branch on qaContent.
FullExtraction(qaContent, opposingPartyHint) ==
  Extraction(FullPairs(qaContent, 1),
             ResolveParty(FirstOfKind(qaContent, "full").v, opposingPartyHint),
             "full")

\* The teaser-header branch on qaContent.
TeaserExtraction(qaContent, opposingPartyHint) ==
  Extraction(TeaserPairs(qaContent, 1),
             ResolveParty(FirstOfKind(qaContent, "teaser").v, opposingPartyHint),
             "teaser")

\* A variant of parseQAPairsFromContent that tries the teaser header first.
parseQAPairsFromContent_TeaserFirst(content, opposingPartyHint) ==
  LET qaContent == QAContent(content)
  IN IF HasKind(qaContent, "teaser") THEN TeaserExtraction(qaContent, opposingPartyHint)
     ELSE IF HasKind(qaContent, "full") THEN FullExtraction(qaContent, opposingPartyHint)
     ELSE Null

\* A variant of parseQAPairsFromContent that tries the teaser pattern when the
\* full header is followed by no pair.
parseQAPairsFromContent_FallsThrough(content, opposingPartyHint) ==
  LET qaContent == QAContent(content)
      full == IF HasKind(qaContent, "full")
              THEN FullExtraction(qaContent, opposingPartyHint)
              ELSE Null
  IN IF full # Null THEN full
     ELSE Extraction(TeaserPairs(qaContent, 1),
                     ResolveParty("opposing party", opposingPartyHint), "teaser")

\* The body of parseQAPairsFromContent from the full header match on.
ParseQAContent(qaContent, opposingPartyHint) ==
  IF HasKind(qaContent, "full") THEN FullExtraction(qaContent, opposingPartyHint)
  ELSE IF HasKind(qaContent, "teaser") THEN TeaserExtraction(qaContent, opposingPartyHint)
  ELSE Null

\* A variant of parseQAPairsFromContent that extracts nothing when a hint is
\* given that names neither party.
parseQAPairsFromContent_NeedsUsableHint(content, opposingPartyHint) ==
  IF opposingPartyHint # Null /\ normalizeOpposingParty(opposingPartyHint) = None
  THEN Null
  ELSE ParseQAContent(QAContent(content), opposingPartyHint)

parseQAPairsFromContent(content, opposingPartyHint) ==
  ParseQAContent(QAContent(content), opposingPartyHint)

\* A variant of deduplicateQAPairs that puts the last occurrence in the slot of
\* the first one.
deduplicateQAPairs_FirstSlot(qaPairs) ==
  LET norm(i) == NormalizeQuestion(qaPairs[i].question)
      lastIndex(i) == MaxOf({j \in 1..Len(qaPairs) : norm(j) = norm(i)})
      isFirst(i) == \A j \in 1..(i - 1) : norm(j) # norm(i)
      RECURSIVE build(_)
      build(i) == IF i > Len(qaPairs) THEN <<>>
                  ELSE IF isFirst(i) THEN <<qaPairs[lastIndex(i)]>> \o build(i + 1)
                  ELSE build(i + 1)
  IN build(1)

\* A variant of deduplicateQAPairs that keeps the first occurrence.
deduplicateQAPairs_KeepsFirst(qaPairs) ==
  LET norm(i) == NormalizeQuestion(qaPairs[i].question)
      isFirst(i) == \A j \in 1..(i - 1) : norm(j) # norm(i)
      RECURSIVE build(_)
      build(i) == IF i > Len(qaPairs) THEN <<>>
                  ELSE IF isFirst(i) THEN <<qaPairs[i]>> \o build(i + 1)
                  ELSE build(i + 1)
  IN build(1)

\* A variant of deduplicateQAPairs that removes one repeated entry per run: the
\* first entry that has a later occurrence.
deduplicateQAPairs_OnePerRun(qaPairs) ==
  LET norm(i) == NormalizeQuestion(qaPairs[i].question)
      repeated == {i \in 1..Len(qaPairs) :
                     \E j \in (i + 1)..Len(qaPairs) : norm(j) = norm(i)}
      RECURSIVE build(_)
      build(i) == IF i > Len(qaPairs) THEN <<>>
                  ELSE IF repeated # {} /\ i = MinOf(repeated) THEN build(i + 1)
                  ELSE <<qaPairs[i]>> \o build(i + 1)
  IN build(1)

\* Keeps each question at its last occurrence.
deduplicateQAPairs(qaPairs) ==
  LET lastOccurrenceIndex(q) ==
        MaxOf({i \in 1..Len(qaPairs) : NormalizeQuestion(qaPairs[i].question) = q})
      keep(i) == lastOccurrenceIndex(NormalizeQuestion(qaPairs[i].question)) = i
      idx == {i \in 1..Len(qaPairs) : keep(i)}
      RECURSIVE build(_)
      build(i) == IF i > Len(qaPairs) THEN <<>>
                  ELSE IF i \in idx THEN <<qaPairs[i]>> \o build(i + 1)
                  ELSE build(i + 1)
  IN build(1)

\* --------------------------------------------------------------- messages
Msg(id, type, content) ==
  [id |-> id, type |-> type, content |-> content]

\* A text is put together from lines joined by "\n".
RECURSIVE Join(_)
Join(ls) ==
  IF Len(ls) = 0 THEN <<>>
  ELSE IF Len(ls) = 1 THEN ls[1]
  ELSE ls[1] \o <<NL>> \o Join(Tail(ls))

\* "**1. v**"
EntryLine(v) ==
  <<STAR, STAR, DIGIT, DOT, SP, Word(v), STAR, STAR>>

CPlain ==
  <<Word("hello")>>

CQA ==
  Join(<<<<Tok("full", "buyer")>>, EntryLine("Pets?"), <<Word("Yes")>>>>)

CTeaser ==
  Join(<<<<Tok("teaser", "seller")>>, EntryLine("Budget?")>>)

\* The messages the channels deliver: a human turn, and an assistant turn whose
\* content is plain text, a disclosed Q/A block or a teaser Q/A block.
Msgs ==
  {Msg("h1", "human", CPlain), Msg("a1", "ai", CPlain), Msg("a1", "ai", CQA),
   Msg("a1", "ai", CTeaser)}

Ids(l) ==
  {l[i].id : i \in 1..Len(l)}

\* The message lists with pairwise distinct identities.
MsgLists ==
  UNION {{l \in [1..n -> Msgs] : Cardinality(Ids(l)) = n} :
           n \in 0..Cardinality({m.id : m \in Msgs})}

\* A disclosed Q/A block that asks the same question twice.
CQADup ==
  Join(<<<<Tok("full", "seller")>>, EntryLine("Pets?"), <<Word("Yes")>>,
         EntryLine("Pets?"), <<Word("No")>>>>)

\* "the counterparty has answered your question: X"
Addendum ==
  <<Tok("marker", "lower"), SP, Word("X")>>

\* "**1. Pets?**\nYes\n\nthe counterparty has answered your question: X"
HeaderlessBlock ==
  Join(<<EntryLine("Pets?"), <<Word("Yes")>>, <<>>, Addendum>>)

\* The same text under a disclosed header.
HeadedBlock ==
  Join(<<<<Tok("full", "buyer")>>, EntryLine("Pets?"), <<Word("Yes")>>, <<>>, Addendum>>)

\* The messages of the lists Thread is rendered with on its own: two assistant
\* turns and a human turn, each with plain text or a Q/A block as content.
ThreadMsgs ==
  {Msg("a1", "ai", CQA), Msg("a1", "ai", CPlain),
   Msg("a2", "ai", CTeaser), Msg("a2", "ai", CQADup), Msg("a2", "ai", CPlain),
   Msg("h1", "human", CQA), Msg("h1", "human", CPlain)}

ThreadMsgLists ==
  UNION {{l \in [1..n -> ThreadMsgs] : Cardinality(Ids(l)) = n} :
           n \in 0..Cardinality({m.id : m \in ThreadMsgs})}

\* Most messages in a list the transcript is rendered from.
MaxTranscript ==
  3

\* The messages of the lists the transcript is rendered from: assistant turns
\* (plain, a Q/A block, a Q/A block with an addendum, one without id), human
\* turns, a tool result, a message with a do-not-render id, a system message.
TranscriptMsgs ==
  {Msg("a1", "ai", CPlain), Msg("a1", "ai", CQA),
   Msg("a2", "ai", HeadedBlock), Msg("a2", "ai", CTeaser),
   Msg("", "ai", CPlain),
   Msg("h1", "human", CPlain), Msg("h1", "human", CQA),
   Msg("t1", "tool", CQA),
   Msg("do-not-render-1", "ai", CPlain),
   Msg("s1", "system", CQA)}

TranscriptLists ==
  UNION {[1..n -> TranscriptMsgs] : n \in 0..MaxTranscript}

\* ------------------------------------------------------------------ state
VARIABLES
  threadId,        \* the session key (useQueryState "threadId"), None when absent
  streamMessages,  \* streamValue.messages, the stream channel's list
  isLoading,       \* streamValue.isLoading, the stream is active
  polledMessages,  \* useState polledMessages: Null or Some(list)
  lastPollRef,     \* lastPollRef.current: the hash of the last applied poll
  inflight,        \* bag of the keys of the fetches awaited in refreshHistory
  overtaken,       \* those of them issued before a fetch that has delivered a list,
                   \* where the order of issue is followed (SpecPolls)
  initialTimeout,  \* the pending setTimeout(refreshHistory, 500), with its closure
  pollInterval,    \* the setInterval of the polling effect, with its closure
  messages,        \* extendedStreamValue.messages as last rendered
  cachedQAPairs,   \* Thread's useState cachedQAPairs: Null or Some(extraction)
  streamError,     \* stream.error: Null or Some([message |-> m])
  lastError,       \* Thread's lastError.current: None or a message
  sessionToasts,   \* toast.error calls made since the session key last changed
  errorToasts,     \* toast.error calls made since stream.error was last absent
  serverHistory,   \* the server's message list of the session where it is held fixed
                   \* (SpecConverge): Null or Some(list)
  input,           \* the argument of the last call of a pure function
  output,          \* what that call returned
  last             \* the step just taken: [op, key, kind, toast]

vars ==
  <<threadId, streamMessages, isLoading, polledMessages, lastPollRef, inflight, overtaken,
    initialTimeout, pollInterval, messages, cachedQAPairs, streamError,
    lastError, sessionToasts, errorToasts, serverHistory,
    input, output, last>>

sessionVars ==
  <<streamMessages, isLoading, polledMessages, lastPollRef, inflight, overtaken,
    initialTimeout, pollInterval, messages, cachedQAPairs>>

errorVars ==
  <<streamError, lastError, sessionToasts, errorToasts>>

callVars ==
  <<input, output>>

Step(op, key, kind, toast) ==
  [op |-> op, key |-> key, kind |-> kind, toast |-> toast]

\* ------------------------------------------------------------- reconciler
\* polledMessages ?? []
OrEmpty(opt) ==
  IF opt = Null THEN <<>> ELSE opt[1]

\* JSON.stringify(m.content) of the last element (undefined for an empty list).
LastContent(l) ==
  IF Len(l) = 0 THEN Null ELSE Some(l[Len(l)].content)

\* Variants of effectiveMessages, each with one slip.
\* The stream-active test is dropped.
effectiveMessages_IgnoresLoading(streamMsgs, polledOpt, loading) ==
  LET polled == OrEmpty(polledOpt)
  IN IF Len(polled) > Len(streamMsgs) THEN polled
     ELSE IF Len(polled) = Len(streamMsgs) /\ Len(polled) > 0
             /\ LastContent(polled) # LastContent(streamMsgs)
     THEN polled
     ELSE streamMsgs

\* The stream-active test is negated.
effectiveMessages_NegatedLoading(streamMsgs, polledOpt, loading) ==
  LET polled == OrEmpty(polledOpt)
  IN IF ~loading THEN streamMsgs
     ELSE IF Len(polled) > Len(streamMsgs) THEN polled
     ELSE IF Len(polled) = Len(streamMsgs) /\ Len(polled) > 0
             /\ LastContent(polled) # LastContent(streamMsgs)
     THEN polled
     ELSE streamMsgs

\* The final fallback returns the polled list.
effectiveMessages_FallsBackToPolled(streamMsgs, polledOpt, loading) ==
  LET polled == OrEmpty(polledOpt)
  IN IF loading THEN streamMsgs
     ELSE IF Len(polled) > Len(streamMsgs) THEN polled
     ELSE IF Len(polled) = Len(streamMsgs) /\ Len(polled) > 0
             /\ LastContent(polled) # LastContent(streamMsgs)
     THEN polled
     ELSE polled

\* The length comparison is turned round.
effectiveMessages_FlippedLength(streamMsgs, polledOpt, loading) ==
  LET polled == OrEmpty(polledOpt)
  IN IF loading THEN streamMsgs
     ELSE IF Len(polled) < Len(streamMsgs) THEN polled
     ELSE IF Len(polled) = Len(streamMsgs) /\ Len(polled) > 0
             /\ LastContent(polled) # LastContent(streamMsgs)
     THEN polled
     ELSE streamMsgs

\* Equal-length lists are compared on the content of every element.
effectiveMessages_ComparesAllContent(streamMsgs, polledOpt, loading) ==
  LET polled == OrEmpty(polledOpt)
  IN IF loading THEN streamMsgs
     ELSE IF Len(polled) > Len(streamMsgs) THEN polled
     ELSE IF Len(polled) = Len(streamMsgs) /\ Len(polled) > 0
             /\ [i \in 1..Len(polled) |-> polled[i].content]
                  # [i \in 1..Len(streamMsgs) |-> streamMsgs[i].content]
     THEN polled
     ELSE streamMsgs

effectiveMessages(streamMsgs, polledOpt, loading) ==
  LET polled == OrEmpty(polledOpt)
  IN IF loading THEN streamMsgs
     ELSE IF Len(polled) > Len(streamMsgs) THEN polled
     ELSE IF Len(polled) = Len(streamMsgs) /\ Len(polled) > 0
             /\ LastContent(polled) # LastContent(streamMsgs)
     THEN polled
     ELSE streamMsgs

\* getContentString(message.content) parsed with the message's hint (these
\* messages carry no name, so the hint is undefined), for each message.
parsedMessage ==
  [m \in Msgs \cup ThreadMsgs \cup TranscriptMsgs |->
     parseQAPairsFromContent(m.content, Null)]

\* A variant of detectedQAPairs that takes the oldest assistant message that
\* parses.
detectedQAPairs_Oldest(msgs) ==
  LET found == {i \in 1..Len(msgs) :
                  msgs[i].type = "ai" /\ parsedMessage[msgs[i]] # Null}
  IN IF found = {} THEN Null
     ELSE Some([parsedMessage[msgs[MinOf(found)]][1]
                  EXCEPT !.qaPairs = deduplicateQAPairs(@)])

RECURSIVE detectedFrom(_, _)
\* The loop's step at index i, where the message is an assistant message and
\* parsed is what its content parses to.
detectedAt(msgs, i, parsed) ==
  IF parsed # Null
  THEN Some([parsed[1] EXCEPT !.qaPairs = deduplicateQAPairs(@)])
  ELSE detectedFrom(msgs, i - 1)

\* The newest assistant message that parses, deduplicated; Null when none does.
detectedFrom(msgs, i) ==
  IF i = 0 THEN Null
  ELSE IF msgs[i].type # "ai" THEN detectedFrom(msgs, i - 1)
  ELSE detectedAt(msgs, i, parsedMessage[msgs[i]])

detectedQAPairs(msgs) ==
  detectedFrom(msgs, Len(msgs))

\* A variant of updateCache that stores whatever was detected.
updateCache_StoresNone(cache, detected) ==
  detected

\* The effect on [detectedQAPairs]: a detected extraction overwrites the cache.
updateCache(cache, detected) ==
  IF detected # Null THEN detected ELSE cache

\* One render of StreamSession and Thread with the state given, and the effects
\* it triggers in Thread.
Render(streamMsgs, polledOpt, loading, cache) ==
  /\ messages' = effectiveMessages(streamMsgs, polledOpt, loading)
  /\ cachedQAPairs' =
       updateCache(cache, detectedQAPairs(effectiveMessages(streamMsgs, polledOpt, loading)))

\* ----------------------------------------------------------------- polling
\* The polling effect's body for the dependencies given: nothing without a
\* thread, else both timers armed, each closing over the values of its render.
armInitialTimeout(tid) ==
  IF tid = None THEN Null ELSE Some([threadId |-> tid])

armPollInterval(tid, loading) ==
  IF tid = None THEN Null ELSE Some([threadId |-> tid, isLoading |-> loading])

\* A variant of PollingEffect whose cleanup leaves a pending timeout in place.
PollingEffect_KeepsTimeout(tid, loading) ==
  /\ initialTimeout' = IF initialTimeout # Null THEN initialTimeout
                       ELSE armInitialTimeout(tid)
  /\ pollInterval' = armPollInterval(tid, loading)

PollingEffect(tid, loading) ==
  /\ initialTimeout' = armInitialTimeout(tid)
  /\ pollInterval' = armPollInterval(tid, loading)

\* newHash: the (id, content) pairs of the list.
Hash(l) ==
  [i \in 1..Len(l) |-> <<l[i].id, l[i].content>>]

\* A fetch outcome: it throws, or it answers with ok and a JSON body. A JSON
\* value is an array (t = "array", its elements in a) or anything else.
JArray(a) ==
  [t |-> "array", a |-> a]

JOther ==
  [t |-> "other", a |-> <<>>]

Response(kind, throws, ok, json) ==
  [kind |-> kind, throws |-> throws, ok |-> ok, json |-> json]

FailedResponses ==
  {Response("network error", TRUE, FALSE, JOther),
   Response("non-OK status", FALSE, FALSE, JOther),
   Response("invalid JSON", TRUE, TRUE, JOther),
   Response("non-array body", FALSE, TRUE, JOther),
   Response("empty history", FALSE, TRUE, JArray(<<>>)),
   Response("missing message list", FALSE, TRUE,
            JArray(<<[values |-> [messages |-> JOther]]>>)),
   Response("empty message list", FALSE, TRUE,
            JArray(<<[values |-> [messages |-> JArray(<<>>)]]>>))}

GoodResponses ==
  {Response("messages", FALSE, TRUE, JArray(<<[values |-> [messages |-> JArray(l)]]>>)) :
     l \in MsgLists \ {<<>>}}

Responses ==
  FailedResponses \cup GoodResponses

\* How a settled fetch is recorded in the step record.
Outcome(resp) ==
  IF resp \in FailedResponses THEN "failed" ELSE "messages"

\* refreshHistory up to its await: nothing without a thread, else one fetch.
refreshHistoryFetch(tid, flying) ==
  IF tid = None THEN flying ELSE flying (+) SetToBag({tid})

\* A variant of refreshHistoryResume that never applies a response.
refreshHistoryResume_NeverApplies(resp, ref, polledOpt) ==
  <<ref, polledOpt>>

\* A variant of refreshHistoryResume whose failure path drops the snapshot.
refreshHistoryResume_ClearsOnFailure(resp, ref, polledOpt) ==
  IF resp.throws \/ ~resp.ok THEN <<<<>>, Null>>
  ELSE LET history == resp.json
       IN IF history.t = "array" /\ Len(history.a) > 0
          THEN LET newMessages == history.a[1].values.messages
               IN IF newMessages.t = "array" /\ Len(newMessages.a) > 0
                  THEN IF Hash(newMessages.a) # ref
                       THEN <<Hash(newMessages.a), Some(newMessages.a)>>
                       ELSE <<ref, polledOpt>>
                  ELSE <<ref, polledOpt>>
          ELSE <<ref, polledOpt>>

\* refreshHistory after its await: <<lastPollRef, polledMessages>> once the
\* fetch has settled with resp.
refreshHistoryResume(resp, ref, polledOpt) ==
  IF resp.throws \/ ~resp.ok THEN <<ref, polledOpt>>
  ELSE LET history == resp.json
       IN IF history.t = "array" /\ Len(history.a) > 0
          THEN LET newMessages == history.a[1].values.messages
               IN IF newMessages.t = "array" /\ Len(newMessages.a) > 0
                  THEN IF Hash(newMessages.a) # ref
                       THEN <<Hash(newMessages.a), Some(newMessages.a)>>
                       ELSE <<ref, polledOpt>>
                  ELSE <<ref, polledOpt>>
          ELSE <<ref, polledOpt>>

\* ------------------------------------------------------ session-key change
\* What a change of threadId does to each piece of retained state.
\* onThreadId and the effect on [threadId]: setPolledMessages(null).
polledAfterThreadChange(polledOpt) ==
  Null

\* A variant of lastPollRefAfterThreadChange that keeps the fingerprint.
lastPollRefAfterThreadChange_Kept(ref) ==
  ref

\* onThreadId and the effect on [threadId]: lastPollRef.current = "".
lastPollRefAfterThreadChange(ref) ==
  <<>>

\* A variant of cachedAfterThreadChange without the clearing effect.
cachedAfterThreadChange_Kept(cache) ==
  cache

\* Thread's effect on [threadId]: setCachedQAPairs(null).
cachedAfterThreadChange(cache) ==
  Null

\* The stream channel's list after the key change: discarded.
streamAfterThreadChange(streamMsgs) ==
  <<>>

\* ------------------------------------------------------------ error report
ErrorMessages ==
  {"m1", "m2"}

\* stream.error values: an error whose message is "" has no (a falsy) message.
Errors ==
  {Some([message |-> m]) : m \in ErrorMessages \cup {""}}

\* The effect on [stream.error]: <<lastError.current, whether toast.error ran>>.
errorEffect(err, marker) ==
  IF err = Null THEN <<None, FALSE>>
  ELSE LET message == err[1].message
       IN IF message = "" \/ marker = message THEN <<marker, FALSE>>
          ELSE <<message, TRUE>>

\* ------------------------------------------------------------------ submit
NewHumanMessage ==
  Msg("h1", "human", CPlain)

\* handleSubmit's optimisticValues: prev.messages, then the new human message
\* (no tool call lacks its response in these lists, so toolMessages is empty).
optimisticMessages(prev, newHumanMessage) ==
  Append(prev, newHumanMessage)

\* -------------------------------------------------------------------- Init
\* The state after construction, for a pending call given.
InitWith(call) ==
  /\ threadId \in Keys \cup {None}
  /\ streamMessages = <<>>
  /\ isLoading = FALSE
  /\ polledMessages = Null
  /\ lastPollRef = <<>>
  /\ inflight = EmptyBag
  /\ overtaken = EmptyBag
  /\ serverHistory = Null
  /\ initialTimeout = armInitialTimeout(threadId)
  /\ pollInterval = armPollInterval(threadId, FALSE)
  /\ messages = <<>>
  /\ cachedQAPairs = Null
  /\ streamError = Null
  /\ lastError = None
  /\ sessionToasts = {}
  /\ errorToasts = {}
  /\ input = call
  /\ output = Null
  /\ last = Step("Init", None, "", FALSE)

Init ==
  InitWith(Null)

\* ----------------------------------------------------------------- actions
\* The session key changes (onThreadId, or the URL's threadId): every effect
\* that depends on threadId runs. The stream hook is outside this source: it
\* may keep its error object across the change or drop it, and the effect on
\* [stream.error] runs only if the object changed.
SetThreadId(k) ==
  /\ k # threadId
  /\ threadId' = k
  /\ streamMessages' = streamAfterThreadChange(streamMessages)
  /\ polledMessages' = polledAfterThreadChange(polledMessages)
  /\ lastPollRef' = lastPollRefAfterThreadChange(lastPollRef)
  /\ PollingEffect(k, isLoading)
  /\ Render(streamAfterThreadChange(streamMessages),
            polledAfterThreadChange(polledMessages), isLoading,
            cachedAfterThreadChange(cachedQAPairs))
  /\ streamError' \in {streamError, Null}
  /\ lastError' = IF streamError' = streamError THEN lastError
                  ELSE errorEffect(streamError', lastError)[1]
  /\ sessionToasts' = {}
  /\ errorToasts' = IF streamError' = Null THEN {} ELSE errorToasts
  /\ last' = Step("SetThreadId", None,
                   IF messages # <<>> /\ cachedQAPairs # Null THEN "had state" ELSE "",
                   FALSE)
  /\ overtaken' = EmptyBag
  /\ UNCHANGED <<isLoading, inflight>>
  /\ UNCHANGED callVars
  /\ UNCHANGED serverHistory

\* A variant of StreamStart in which the start of the stream also drops the
\* polled snapshot.
StreamStart_ClearsPolled ==
  /\ ~isLoading
  /\ isLoading' = TRUE
  /\ polledMessages' = Null
  /\ lastPollRef' = <<>>
  /\ PollingEffect(threadId, TRUE)
  /\ Render(streamMessages, Null, TRUE, cachedQAPairs)
  /\ last' = Step("StreamStart", None, "", FALSE)
  /\ UNCHANGED <<threadId, streamMessages, inflight, overtaken>>
  /\ UNCHANGED errorVars
  /\ UNCHANGED callVars
  /\ UNCHANGED serverHistory

\* The stream becomes active (a run starts or is joined).
StreamStart ==
  /\ ~isLoading
  /\ isLoading' = TRUE
  /\ PollingEffect(threadId, TRUE)
  /\ Render(streamMessages, polledMessages, TRUE, cachedQAPairs)
  /\ last' = Step("StreamStart", None, "", FALSE)
  /\ UNCHANGED <<threadId, streamMessages, polledMessages, lastPollRef, inflight, overtaken>>
  /\ UNCHANGED errorVars
  /\ UNCHANGED callVars
  /\ UNCHANGED serverHistory

\* The stream ends.
StreamStop ==
  /\ isLoading
  /\ isLoading' = FALSE
  /\ PollingEffect(threadId, FALSE)
  /\ Render(streamMessages, polledMessages, FALSE, cachedQAPairs)
  /\ last' = Step("StreamStop", None, "", FALSE)
  /\ UNCHANGED <<threadId, streamMessages, polledMessages, lastPollRef, inflight, overtaken>>
  /\ UNCHANGED errorVars
  /\ UNCHANGED callVars
  /\ UNCHANGED serverHistory

\* The stream channel delivers its list with one more message.
StreamAppend(m) ==
  /\ m.id \notin Ids(streamMessages)
  /\ streamMessages' = Append(streamMessages, m)
  /\ Render(Append(streamMessages, m), polledMessages, isLoading, cachedQAPairs)
  /\ last' = Step("StreamAppend", None, "", FALSE)
  /\ UNCHANGED <<threadId, isLoading, polledMessages, lastPollRef, inflight, overtaken,
                 initialTimeout, pollInterval>>
  /\ UNCHANGED errorVars
  /\ UNCHANGED callVars
  /\ UNCHANGED serverHistory

\* The stream channel delivers its list with the last message superseded by a
\* message of the same identity.
StreamReplaceLast(m) ==
  /\ Len(streamMessages) > 0
  /\ m.id = streamMessages[Len(streamMessages)].id
  /\ m # streamMessages[Len(streamMessages)]
  /\ streamMessages' = [streamMessages EXCEPT ![Len(streamMessages)] = m]
  /\ Render([streamMessages EXCEPT ![Len(streamMessages)] = m], polledMessages,
            isLoading, cachedQAPairs)
  /\ last' = Step("StreamReplaceLast", None, "", FALSE)
  /\ UNCHANGED <<threadId, isLoading, polledMessages, lastPollRef, inflight, overtaken,
                 initialTimeout, pollInterval>>
  /\ UNCHANGED errorVars
  /\ UNCHANGED callVars
  /\ UNCHANGED serverHistory

\* A variant of Submit that waits until no poll is pending.
Submit_WaitsForPoll ==
  /\ inflight = EmptyBag
  /\ ~isLoading
  /\ NewHumanMessage.id \notin Ids(streamMessages) \cup Ids(OrEmpty(polledMessages))
  /\ streamMessages' = optimisticMessages(streamMessages, NewHumanMessage)
  /\ isLoading' = TRUE
  /\ PollingEffect(threadId, TRUE)
  /\ Render(optimisticMessages(streamMessages, NewHumanMessage), polledMessages,
            TRUE, cachedQAPairs)
  /\ last' = Step("Submit", None, "", FALSE)
  /\ UNCHANGED <<threadId, polledMessages, lastPollRef, inflight, overtaken>>
  /\ UNCHANGED errorVars
  /\ UNCHANGED callVars
  /\ UNCHANGED serverHistory

\* handleSubmit with a non-empty input: the run starts on the optimistic list.
Submit ==
  /\ ~isLoading
  /\ NewHumanMessage.id \notin Ids(streamMessages) \cup Ids(OrEmpty(polledMessages))
  /\ streamMessages' = optimisticMessages(streamMessages, NewHumanMessage)
  /\ isLoading' = TRUE
  /\ PollingEffect(threadId, TRUE)
  /\ Render(optimisticMessages(streamMessages, NewHumanMessage), polledMessages,
            TRUE, cachedQAPairs)
  /\ last' = Step("Submit", None, "", FALSE)
  /\ UNCHANGED <<threadId, polledMessages, lastPollRef, inflight, overtaken>>
  /\ UNCHANGED errorVars
  /\ UNCHANGED callVars
  /\ UNCHANGED serverHistory

\* The 500 ms timeout of the polling effect fires: refreshHistory.
InitialTimeoutFires ==
  /\ initialTimeout # Null
  /\ BagCardinality(inflight) < MaxInflight
  /\ inflight' = refreshHistoryFetch(initialTimeout[1].threadId, inflight)
  /\ initialTimeout' = Null
  /\ last' = Step("InitialTimeoutFires", initialTimeout[1].threadId, "", FALSE)
  /\ UNCHANGED <<threadId, streamMessages, isLoading, polledMessages, lastPollRef,
                 overtaken, pollInterval, messages, cachedQAPairs>>
  /\ UNCHANGED errorVars
  /\ UNCHANGED callVars
  /\ UNCHANGED serverHistory

\* The 2000 ms interval of the polling effect fires: refreshHistory unless the
\* stream was active when the effect ran.
PollIntervalFires ==
  /\ pollInterval # Null
  /\ BagCardinality(inflight) < MaxInflight
  /\ inflight' = IF ~pollInterval[1].isLoading
                 THEN refreshHistoryFetch(pollInterval[1].threadId, inflight)
                 ELSE inflight
  /\ last' = Step("PollIntervalFires", pollInterval[1].threadId, "", FALSE)
  /\ UNCHANGED <<threadId, streamMessages, isLoading, polledMessages, lastPollRef,
                 overtaken, initialTimeout, pollInterval, messages, cachedQAPairs>>
  /\ UNCHANGED errorVars
  /\ UNCHANGED callVars
  /\ UNCHANGED serverHistory

\* The overtaken fetches once a fetch for key k has settled with resp: the
\* fetch was itself overtaken (late), or it was issued after j others that are
\* still awaited, which it overtakes when it delivers a list.
overtakenAfter(k, resp, marked, late, j) ==
  IF late THEN marked (-) SetToBag({k})
  ELSE IF Outcome(resp) = "messages" /\ j > 0 THEN marked (+) [x \in {k} |-> j]
  ELSE marked

\* refreshHistory after its await, for the fetch of a poll issued for key k
\* that settles with resp, and the render that follows.
PollSettles(k, resp) ==
  /\ BagIn(k, inflight)
  /\ inflight' = inflight (-) SetToBag({k})
  /\ lastPollRef' = refreshHistoryResume(resp, lastPollRef, polledMessages)[1]
  /\ polledMessages' = refreshHistoryResume(resp, lastPollRef, polledMessages)[2]
  /\ Render(streamMessages,
            refreshHistoryResume(resp, lastPollRef, polledMessages)[2],
            isLoading, cachedQAPairs)
  /\ last' = Step("PollResolve", k, Outcome(resp), FALSE)
  /\ UNCHANGED <<threadId, streamMessages, isLoading, initialTimeout, pollInterval>>
  /\ UNCHANGED errorVars
  /\ UNCHANGED callVars
  /\ UNCHANGED serverHistory

\* The fetch of a poll issued for key k settles with resp; the order in which
\* the fetches were issued is not followed.
PollResolve(k, resp) ==
  /\ PollSettles(k, resp)
  /\ UNCHANGED overtaken

\* The fetch of a poll issued for key k settles with resp, the order of issue
\* being followed: the fetches are independent requests and settle in any
\* order, so the one that settles was overtaken before (late), or was issued
\* after j others that are still awaited.
PollResolveInOrder(k, resp, late, j) ==
  /\ IF late THEN BagIn(k, overtaken) /\ j = 0
     ELSE j < CopiesIn(k, inflight) - CopiesIn(k, overtaken)
  /\ PollSettles(k, resp)
  /\ overtaken' = overtakenAfter(k, resp, overtaken, late, j)

\* stream.error changes to err (a new error object, or none).
StreamError(err) ==
  /\ err # Null \/ streamError # Null
  /\ streamError' = err
  /\ lastError' = errorEffect(err, lastError)[1]
  /\ sessionToasts' = IF errorEffect(err, lastError)[2]
                      THEN sessionToasts \cup {err[1].message}
                      ELSE sessionToasts
  /\ errorToasts' = IF err = Null THEN {}
                    ELSE IF errorEffect(err, lastError)[2]
                    THEN errorToasts \cup {err[1].message}
                    ELSE errorToasts
  /\ last' = Step("StreamError", None, "", errorEffect(err, lastError)[2])
  /\ UNCHANGED threadId
  /\ UNCHANGED sessionVars
  /\ UNCHANGED callVars
  /\ UNCHANGED serverHistory

\* ---------------------------------------------------------- pure functions
\* Most Q/A pairs in a list handed to deduplicateQAPairs.
MaxPairs ==
  3

Questions ==
  {<<Word("Pets?")>>, <<SP, Word("pets?"), SP>>, <<Word("Budget?")>>}

Answers ==
  {<<>>, <<Word("Yes")>>, <<Word("No")>>}

QAPairs ==
  [question : Questions, answer : Answers]

QAPairLists ==
  UNION {[1..n -> QAPairs] : n \in 0..MaxPairs}

\* The texts handed to the extractor and the splitter: up to eight lines, each
\* drawn from the spellings its place allows or left out.
Absent ==
  <<Tok("absent", "")>>

HeaderLines ==
  {Absent, <<Tok("full", "buyer")>>, <<Tok("full", "Opposing Party")>>,
   <<Tok("teaser", "SELLER")>>, <<Tok("teaser", "opposing party")>>,
   <<Word("hello")>>}

EntryLines ==
  {Absent, EntryLine("Pets?"), <<STAR, STAR, DIGIT, DOT, SP, STAR, STAR>>}

AnswerLines ==
  {Absent, <<Word("Yes")>>, <<SP>>}

SecondLines ==
  {Absent, <<Tok("teaser", "buyer")>>, <<Tok("full", "seller")>>, EntryLine("Budget?")}

GapLines ==
  {Absent, <<>>}

TailLines ==
  {Absent, <<Tok("marker", "lower"), SP, Word("X")>>, <<SP, Tok("marker", "Upper")>>,
   <<Tok("marker", "lower"), SP, Tok("full", "buyer")>>, <<Word("bye")>>}

LastLines ==
  {Absent, <<Word("bye")>>, <<SP, Tok("marker", "lower")>>}

Texts ==
  {Join(SelectSeq(<<h, e, a, m, g1, t, g2, l>>, LAMBDA line : line # Absent)) :
     h \in HeaderLines, e \in EntryLines, a \in AnswerLines, m \in SecondLines,
     g1 \in GapLines, t \in TailLines, g2 \in GapLines, l \in LastLines}

\* opposingPartyHint: undefined, or a string.
Hints ==
  {Null, Some(<<Word("buyer")>>), Some(<<SP, Word("SELLER"), SP>>),
   Some(<<Word("agent")>>)}

\* What AssistantMessage puts in the transcript for the message: Null when it
\* renders nothing, else the text it renders.
\* What AssistantMessage shows, given the values it computes from the message.
RenderedContent(message, contentString, isQAPairsMessage, counterpartyMessage, trimmedContent) ==
  IF message.type = "tool" THEN Null
  ELSE IF trimmedContent = <<>> \/ trimmedContent = <<Word("null")>> THEN Null
  ELSE IF isQAPairsMessage /\ counterpartyMessage # Null THEN counterpartyMessage
  ELSE IF isQAPairsMessage THEN Null
  ELSE Some(contentString)

AssistantMessage(message) ==
  RenderedContent(message, message.content,
                  parseQAPairsFromContent(message.content, Null) # Null,
                  extractCounterpartyMessage(message.content),
                  toLowerCase(trim(message.content)))

\* HumanMessage shows the content string of the message.
HumanMessage(message) ==
  Some(message.content)

\* id.startsWith(DO_NOT_RENDER_ID_PREFIX), on the ids of TranscriptMsgs.
startsWithDoNotRender(id) ==
  id \in {"do-not-render-1"}

\* messages.filter(...): no do-not-render id, no tool result.
Filtered(msgs) ==
  SelectSeq(msgs, LAMBDA m : ~startsWithDoNotRender(m.id) /\ m.type # "tool")

\* The keys msg.id || `${msg.type}-${i}` of filtered[i] and filtered[j], i # j,
\* are equal: a key made from the index is equal to no other.
SameKey(filtered, i, j) ==
  filtered[i].id # "" /\ filtered[i].id = filtered[j].id

\* A variant of DeduplicatedFrom that keeps the first occurrence of each key.
RECURSIVE DeduplicatedFrom_KeepsFirst(_, _)
DeduplicatedFrom_KeepsFirst(filtered, i) ==
  IF i > Len(filtered) THEN <<>>
  ELSE IF \E j \in 1..(i - 1) : SameKey(filtered, i, j)
  THEN DeduplicatedFrom_KeepsFirst(filtered, i + 1)
  ELSE <<filtered[i]>> \o DeduplicatedFrom_KeepsFirst(filtered, i + 1)

\* deduplicated, from index i on: filtered[i] is kept when no later element
\* has its key, and the kept elements stay in order.
RECURSIVE DeduplicatedFrom(_, _)
DeduplicatedFrom(filtered, i) ==
  IF i > Len(filtered) THEN <<>>
  ELSE IF \E j \in (i + 1)..Len(filtered) : SameKey(filtered, i, j)
  THEN DeduplicatedFrom(filtered, i + 1)
  ELSE <<filtered[i]>> \o DeduplicatedFrom(filtered, i + 1)

\* What one message of the transcript shows: HumanMessage for a human turn,
\* AssistantMessage for every other message.
RenderedMessage(message) ==
  [message |-> message,
   shown |-> IF message.type = "human" THEN HumanMessage(message)
             ELSE AssistantMessage(message)]

RenderedMessages(deduplicated) ==
  [i \in 1..Len(deduplicated) |-> RenderedMessage(deduplicated[i])]

\* The transcript Thread renders from messages.
Transcript(msgs) ==
  RenderedMessages(DeduplicatedFrom(Filtered(msgs), 1))

\* A pending call: the function and its arguments (those it does not take
\* are empty).
Call(fn, qaPairs, content, opposingPartyHint) ==
  [fn |-> fn, qaPairs |-> qaPairs, content |-> content,
   opposingPartyHint |-> opposingPartyHint, messages |-> <<>>]

\* Thread rendered with the reconciled list lists[1] and then with lists[2].
ThreadCall(lists) ==
  [Call("Thread", <<>>, <<>>, Null) EXCEPT !.messages = lists]

\* parseQAPairsFromContent(content, {opposingPartyHint}) returns.
Extract ==
  /\ last.op = "Init"
  /\ input.fn = "parseQAPairsFromContent"
  /\ output' = parseQAPairsFromContent(input.content, input.opposingPartyHint)
  /\ last' = Step("parseQAPairsFromContent", None, "", FALSE)
  /\ UNCHANGED <<threadId, sessionVars, errorVars, input, serverHistory>>

\* extractCounterpartyMessage(content) returns.
Split ==
  /\ last.op = "Init"
  /\ input.fn = "extractCounterpartyMessage"
  /\ output' = extractCounterpartyMessage(input.content)
  /\ last' = Step("extractCounterpartyMessage", None, "", FALSE)
  /\ UNCHANGED <<threadId, sessionVars, errorVars, input, serverHistory>>

\* AssistantMessage renders an assistant message with the content given.
RenderAssistantMessage ==
  /\ last.op = "Init"
  /\ input.fn = "AssistantMessage"
  /\ output' = AssistantMessage(Msg("a1", "ai", input.content))
  /\ last' = Step("AssistantMessage", None, "", FALSE)
  /\ UNCHANGED <<threadId, sessionVars, errorVars, input, serverHistory>>

\* deduplicateQAPairs(qaPairs) returns.
Deduplicate ==
  /\ last.op = "Init"
  /\ input.fn = "deduplicateQAPairs"
  /\ output' = deduplicateQAPairs(input.qaPairs)
  /\ last' = Step("deduplicateQAPairs", None, "", FALSE)
  /\ UNCHANGED <<threadId, sessionVars, errorVars, input, serverHistory>>

\* deduplicateQAPairs called on what its last call returned.
DeduplicateAgain ==
  /\ last.op = "deduplicateQAPairs"
  /\ last.kind = ""
  /\ input' = Call("deduplicateQAPairs", output, <<>>, Null)
  /\ output' = deduplicateQAPairs(output)
  /\ last' = Step("deduplicateQAPairs", None, "again", FALSE)
  /\ UNCHANGED <<threadId, sessionVars, errorVars, serverHistory>>

\* Thread renders with the next reconciled list of the call: detectedQAPairs is
\* recomputed and the effect on it updates the cache.
RenderThread ==
  /\ input.fn = "Thread"
  /\ last.op = "Init" \/ (last.op = "Thread" /\ last.kind = "")
  /\ LET l == IF last.op = "Init" THEN input.messages[1] ELSE input.messages[2]
     IN /\ messages' = l
        /\ output' = detectedQAPairs(l)
        /\ cachedQAPairs' = updateCache(cachedQAPairs, detectedQAPairs(l))
  /\ last' = Step("Thread", None, IF last.op = "Init" THEN "" ELSE "again", FALSE)
  /\ UNCHANGED <<threadId, streamMessages, isLoading, polledMessages, lastPollRef,
                 inflight, overtaken, initialTimeout, pollInterval, errorVars, input, serverHistory>>

\* The transcript rendered from the list msgs.
TranscriptCall(msgs) ==
  [Call("Transcript", <<>>, <<>>, Null) EXCEPT !.messages = msgs]

\* Thread renders with the reconciled list of the call: the transcript is
\* built from it, detectedQAPairs is computed and the effect on it updates the
\* cache.
RenderTranscript ==
  /\ input.fn = "Transcript"
  /\ last.op = "Init"
  /\ messages' = input.messages
  /\ output' = Transcript(input.messages)
  /\ cachedQAPairs' = updateCache(cachedQAPairs, detectedQAPairs(input.messages))
  /\ last' = Step("Transcript", None, "", FALSE)
  /\ UNCHANGED <<threadId, streamMessages, isLoading, polledMessages, lastPollRef,
                 inflight, overtaken, initialTimeout, pollInterval, errorVars, input, serverHistory>>

\* The texts of the input box: empty, whitespace only, a word, a word with
\* whitespace around it.
InputTexts ==
  {<<>>, <<SP>>, <<SP, NL>>, <<Word("hello")>>, <<SP, Word("hello"), SP>>}

\* The attachments of the form: none, or one content block.
ContentBlockLists ==
  {<<>>, <<Tok("block", "image")>>}

\* What handleSubmit reads besides the input text: the attachments, the
\* stream's isLoading and the first-token flag.
Forms ==
  [contentBlocks : ContentBlockLists, isLoading : BOOLEAN, firstTokenReceived : BOOLEAN]

\* newHumanMessage: the text, unless it is blank, followed by the attachments.
humanMessage(text, blocks) ==
  Msg(NewHumanMessage.id, "human", (IF trim(text) # <<>> THEN text ELSE <<>>) \o blocks)

\* A variant of handleSubmit without the test of isLoading.
handleSubmit_IgnoresLoading(text, blocks, loading, firstToken, prev) ==
  IF trim(text) = <<>> /\ blocks = <<>>
  THEN [submitted |-> Null, input |-> text, contentBlocks |-> blocks,
        firstTokenReceived |-> firstToken, messages |-> prev]
  ELSE [submitted |-> Some(humanMessage(text, blocks)), input |-> <<>>,
        contentBlocks |-> <<>>, firstTokenReceived |-> FALSE,
        messages |-> optimisticMessages(prev, humanMessage(text, blocks))]

\* handleSubmit with the form given and prev the list the submission extends:
\* what is passed to stream.submit (none when it returns early), and the input
\* text, the attachments, the first-token flag and the list afterwards.
handleSubmit(text, blocks, loading, firstToken, prev) ==
  IF (trim(text) = <<>> /\ blocks = <<>>) \/ loading
  THEN [submitted |-> Null, input |-> text, contentBlocks |-> blocks,
        firstTokenReceived |-> firstToken, messages |-> prev]
  ELSE [submitted |-> Some(humanMessage(text, blocks)), input |-> <<>>,
        contentBlocks |-> <<>>, firstTokenReceived |-> FALSE,
        messages |-> optimisticMessages(prev, humanMessage(text, blocks))]

\* The form is submitted with the text and the form state given, the list on
\* display being msgs.
SubmitCall(text, form, msgs) ==
  [fn |-> "handleSubmit", qaPairs |-> <<>>, content |-> text,
   opposingPartyHint |-> Null, messages |-> msgs, form |-> Some(form)]

\* handleSubmit(e) returns.
HandleSubmit ==
  /\ last.op = "Init"
  /\ input.fn = "handleSubmit"
  /\ output' = handleSubmit(input.content, input.form[1].contentBlocks,
                            input.form[1].isLoading,
                            input.form[1].firstTokenReceived, input.messages)
  /\ last' = Step("handleSubmit", None, "", FALSE)
  /\ UNCHANGED <<threadId, sessionVars, errorVars, input, serverHistory>>

\* ---------------------------------------------------------- specifications
Next ==
  \/ \E k \in Keys \cup {None} : SetThreadId(k)
  \/ StreamStart
  \/ StreamStop
  \/ \E m \in Msgs : StreamAppend(m)
  \/ \E m \in Msgs : StreamReplaceLast(m)
  \/ Submit
  \/ InitialTimeoutFires
  \/ PollIntervalFires
  \/ \E k \in Keys, resp \in Responses : PollResolve(k, resp)

Spec ==
  Init /\ [][Next]_vars

\* The error report alone, with the session-key changes and the stream's starts
\* and stops around it.
NextError ==
  \/ \E k \in Keys \cup {None} : SetThreadId(k)
  \/ StreamStart
  \/ StreamStop
  \/ \E err \in Errors \cup {Null} : StreamError(err)

SpecError ==
  Init /\ [][NextError]_vars

\* The polls alone, with the order in which they were issued, and the
\* session-key changes and the stream's starts and stops around them.
NextPolls ==
  \/ \E k \in Keys \cup {None} : SetThreadId(k)
  \/ StreamStart
  \/ StreamStop
  \/ InitialTimeoutFires
  \/ PollIntervalFires
  \/ \E k \in Keys, resp \in Responses, late \in BOOLEAN, j \in 0..MaxInflight :
       PollResolveInOrder(k, resp, late, j)

SpecPolls ==
  Init /\ [][NextPolls]_vars

\* The session stays open with the stream idle on a fixed list while the server
\* holds a fixed message list: every poll succeeds with that list.
\* What the history endpoint answers for a message list.
HistoryResponse(l) ==
  IF l = <<>>
  THEN Response("empty message list", FALSE, TRUE,
                JArray(<<[values |-> [messages |-> JArray(<<>>)]]>>))
  ELSE Response("messages", FALSE, TRUE, JArray(<<[values |-> [messages |-> JArray(l)]]>>))

\* A session open on a key, the stream stopped on some list, both timers armed
\* by the polling effect, no poll applied yet.
InitConverge ==
  /\ threadId \in Keys
  /\ streamMessages \in MsgLists
  /\ isLoading = FALSE
  /\ polledMessages = Null
  /\ lastPollRef = <<>>
  /\ inflight = EmptyBag
  /\ overtaken = EmptyBag
  /\ serverHistory \in {Some(l) : l \in MsgLists}
  /\ initialTimeout = armInitialTimeout(threadId)
  /\ pollInterval = armPollInterval(threadId, FALSE)
  /\ messages = effectiveMessages(streamMessages, Null, FALSE)
  /\ cachedQAPairs = updateCache(Null, detectedQAPairs(streamMessages))
  /\ streamError = Null
  /\ lastError = None
  /\ sessionToasts = {}
  /\ errorToasts = {}
  /\ input = Null
  /\ output = Null
  /\ last = Step("Init", None, "", FALSE)

\* A fetch of the session settles with the server's list.
PollSucceeds ==
  PollResolve(threadId, HistoryResponse(serverHistory[1]))

NextConverge ==
  \/ InitialTimeoutFires
  \/ PollIntervalFires
  \/ PollSucceeds

\* The timers fire and every fetch settles.
SpecConverge ==
  /\ InitConverge
  /\ [][NextConverge]_vars
  /\ WF_vars(InitialTimeoutFires)
  /\ WF_vars(PollIntervalFires)
  /\ WF_vars(PollSucceeds)

\* The Q/A helpers called on their own.
InitCalls ==
  /\ threadId = None
  /\ \/ \E qaPairs \in QAPairLists :
          InitWith(Call("deduplicateQAPairs", qaPairs, <<>>, Null))
     \/ \E content \in Texts, hint \in Hints :
          InitWith(Call("parseQAPairsFromContent", <<>>, content, hint))
     \/ \E content \in Texts :
          InitWith(Call("extractCounterpartyMessage", <<>>, content, Null))
     \/ \E content \in Texts :
          InitWith(Call("AssistantMessage", <<>>, content, Null))
     \/ \E l1 \in ThreadMsgLists, l2 \in ThreadMsgLists :
          InitWith(ThreadCall(<<l1, l2>>))
     \/ \E l \in TranscriptLists :
          InitWith(TranscriptCall(l))
     \/ \E text \in InputTexts, form \in Forms, msgs \in MsgLists :
          InitWith(SubmitCall(text, form, msgs))

NextCalls ==
  \/ Deduplicate
  \/ DeduplicateAgain
  \/ Extract
  \/ Split
  \/ RenderAssistantMessage
  \/ RenderThread
  \/ RenderTranscript
  \/ HandleSubmit

SpecCalls ==
  InitCalls /\ [][NextCalls]_vars

\* ------------------------------------------------------------------ claims
polled ==
  OrEmpty(polledMessages)

AiIds(l) ==
  {l[i].id : i \in {j \in 1..Len(l) : l[j].type = "ai"}}

\* C1: a poll response for a key K1 that settles once the session key is
\* another key K2 never modifies polledMessages nor the poll change-hash.
C1_StalePollIgnored ==
  [][(last'.op = "PollResolve" /\ threadId' \in Keys /\ last'.key # threadId')
       => (polledMessages' = polledMessages /\ lastPollRef' = lastPollRef)]_vars

\* C2 as stated: while the session key does not change, the length of the
\* reconciled list never decreases.
C2_LengthNeverDecreases ==
  [][threadId' = threadId => Len(messages') >= Len(messages)]_vars

\* C2 as amended: while the session key does not change, the length of the
\* reconciled list does not decrease across a step in which the stream does not
\* become active and neither streamMessages nor polledMessages gets shorter.
C2_LengthMonotoneWhileSourcesGrow ==
  [][(/\ threadId' = threadId
      /\ (isLoading' => isLoading)
      /\ Len(streamMessages') >= Len(streamMessages)
      /\ Len(OrEmpty(polledMessages')) >= Len(OrEmpty(polledMessages)))
       => Len(messages') >= Len(messages)]_vars

\* The stream is idle and the reconciled list is the polled snapshot, which is
\* longer than the non-empty stream list.
C2_Witness ==
  /\ ~isLoading
  /\ Len(streamMessages) > 0
  /\ Len(polled) > Len(streamMessages)
  /\ messages = polled
  /\ last.op = "PollResolve"

\* C3 as stated: while the session key does not change, the identity of an
\* assistant message of the reconciled list stays in the reconciled list.
C3_AssistantNeverDisappears ==
  [][threadId' = threadId => AiIds(messages) \subseteq Ids(messages')]_vars

\* C3 as amended: while the session key does not change, the identity of an
\* assistant message of the reconciled list stays in the reconciled list across
\* every step after which streamMessages holds it and the polled snapshot, if
\* there is one, holds it too.
C3_AssistantStaysWhileSourcesHoldIt ==
  [][threadId' = threadId
       => \A id \in AiIds(messages) :
            (/\ id \in Ids(streamMessages')
             /\ (polledMessages' = Null \/ id \in Ids(OrEmpty(polledMessages'))))
              => id \in Ids(messages')]_vars

\* An assistant message held by both lists is shown from the polled snapshot,
\* which superseded the stream's content for it.
C3_Witness ==
  /\ ~isLoading
  /\ polledMessages # Null
  /\ messages = polled
  /\ messages # streamMessages
  /\ AiIds(messages) # {}
  /\ AiIds(messages) \subseteq Ids(streamMessages)

\* C4: no poll request is issued while the stream is active.
C4_NoPollWhileStreamActive ==
  [][BagCardinality(inflight') > BagCardinality(inflight) => ~isLoading]_vars

\* C5: whenever the stream is active the reconciled list is streamMessages.
C5_ActiveStreamWins ==
  isLoading => messages = streamMessages

\* The stream is active while the polled snapshot is longer than the stream list.
C5_Witness ==
  /\ isLoading
  /\ Len(polled) > Len(streamMessages)
  /\ messages = streamMessages

\* C6: when the stream is idle and the polled snapshot is strictly longer than
\* streamMessages, the reconciled list is the polled snapshot.
C6_LongerPolledWins ==
  (~isLoading /\ Len(polled) > Len(streamMessages)) => messages = polled

C6_Witness ==
  /\ ~isLoading
  /\ Len(streamMessages) > 0
  /\ Len(polled) > Len(streamMessages)
  /\ messages = polled

\* C7: when the stream is idle and the polled snapshot is not longer, the
\* reconciled list is the polled snapshot if the lists have the same non-zero
\* length and their last elements differ in content, and streamMessages in
\* every other case.
C7_LastContentDecides ==
  (~isLoading /\ Len(polled) <= Len(streamMessages))
    => IF /\ Len(polled) = Len(streamMessages)
          /\ Len(polled) > 0
          /\ polled[Len(polled)].content # streamMessages[Len(streamMessages)].content
       THEN messages = polled
       ELSE messages = streamMessages

\* Equal lengths, equal last content, different first elements: the stream list
\* is kept.
C7_Witness ==
  /\ ~isLoading
  /\ Len(polled) = 2
  /\ Len(streamMessages) = 2
  /\ polled[2].content = streamMessages[2].content
  /\ polled[1] # streamMessages[1]
  /\ messages = streamMessages

C9_MarkerDiscardedOnKeyChange ==
  [][/\ threadId' # threadId => lastError' = None
     /\ (/\ last'.op = "StreamError"
         /\ streamError' # Null
         /\ streamError'[1].message # ""
         /\ sessionToasts = {})
          => last'.toast]_vars

\* C10: a failed or malformed poll response leaves polledMessages, the poll
\* change-hash and the reconciled list as they were.
C10_FailedPollChangesNothing ==
  [][(last'.op = "PollResolve" /\ last'.kind = "failed")
       => /\ polledMessages' = polledMessages
          /\ lastPollRef' = lastPollRef
          /\ messages' = messages]_vars

\* A poll has just failed while the reconciled list is the polled snapshot.
C10_Witness ==
  /\ last.op = "PollResolve"
  /\ last.kind = "failed"
  /\ polledMessages # Null
  /\ messages = polled

\* No assistant message of the list yields an extraction.
NoQABearing(l) ==
  \A i \in 1..Len(l) : l[i].type = "ai" => parsedMessage[l[i]] = Null

\* C11: while the session key does not change, a cache that holds an extraction
\* keeps holding one, a reconciled list with no Q/A-bearing assistant message
\* leaves the cache as it was, and the cache changes only to the extraction of
\* the new reconciled list.
C11_CachePersists ==
  [][threadId' = threadId
       => /\ cachedQAPairs # Null => cachedQAPairs' # Null
          /\ NoQABearing(messages') => cachedQAPairs' = cachedQAPairs
          /\ cachedQAPairs' # cachedQAPairs
               => (cachedQAPairs' # Null /\ cachedQAPairs' = detectedQAPairs(messages'))]_vars

\* The cache holds an extraction while the reconciled list, not empty, has no
\* Q/A-bearing message left.
C11_Witness ==
  /\ cachedQAPairs # Null
  /\ messages # <<>>
  /\ NoQABearing(messages)

\* The indexes of the assistant messages of a list that yield an extraction.
QABearing(l) ==
  {i \in 1..Len(l) : l[i].type = "ai" /\ parsedMessage[l[i]] # Null}

\* The deduplicated extraction of the Q/A-bearing assistant message with the
\* greatest index, Null when the list has none.
NewestExtraction(l) ==
  IF QABearing(l) = {} THEN Null
  ELSE Some([parsedMessage[l[MaxOf(QABearing(l))]][1]
               EXCEPT !.qaPairs = deduplicateQAPairs(@)])

\* C12: after Thread renders with a reconciled list, the detected extraction is
\* the deduplicated extraction of the Q/A-bearing assistant message with the
\* greatest index (other roles skipped), and when there is one the cache holds
\* exactly it.
C12_NewestExtractionCached ==
  last.op = "Thread"
    => /\ output = NewestExtraction(messages)
       /\ output # Null => cachedQAPairs = output

\* The list has two Q/A-bearing assistant messages and ends with a human turn
\* whose text is a Q/A block; the cache held another extraction before.
C12_Witness ==
  /\ last.op = "Thread"
  /\ last.kind = "again"
  /\ Cardinality(QABearing(messages)) = 2
  /\ messages[Len(messages)].type = "human"
  /\ parsedMessage[messages[Len(messages)]] # Null
  /\ NewestExtraction(input.messages[1]) # Null
  /\ NewestExtraction(input.messages[1]) # NewestExtraction(messages)
  /\ cachedQAPairs = NewestExtraction(messages)

\* The normalized questions of a list, in order.
NormalizedQuestions(l) ==
  [i \in 1..Len(l) |-> NormalizeQuestion(l[i].question)]

\* The distinct elements of a sequence in the order of their first appearance.
RECURSIVE FirstAppearances(_)
FirstAppearances(qs) ==
  IF qs = <<>> THEN <<>>
  ELSE LET front == FirstAppearances(SubSeqOrEmpty(qs, 1, Len(qs) - 1))
       IN IF \E i \in 1..(Len(qs) - 1) : qs[i] = qs[Len(qs)]
          THEN front ELSE Append(front, qs[Len(qs)])

\* The distinct elements of a sequence in the order of their last appearance.
RECURSIVE LastAppearances(_)
LastAppearances(qs) ==
  IF qs = <<>> THEN <<>>
  ELSE IF \E i \in 2..Len(qs) : qs[i] = qs[1]
  THEN LastAppearances(Tail(qs))
  ELSE <<qs[1]>> \o LastAppearances(Tail(qs))

Deduplicated ==
  last.op = "deduplicateQAPairs"

\* C13 as stated: the questions of the Deduplicator's output are the distinct
\* normalized questions of the input in the order of their first appearance.
C13_FirstAppearanceOrder ==
  Deduplicated => NormalizedQuestions(output) = FirstAppearances(NormalizedQuestions(input.qaPairs))

\* C13 as amended: the questions of the Deduplicator's output are the distinct
\* normalized questions of the input in the order of their last appearance.
C13_LastAppearanceOrder ==
  Deduplicated => NormalizedQuestions(output) = LastAppearances(NormalizedQuestions(input.qaPairs))

\* The input repeats its first question after a different one.
C13_Witness ==
  /\ Deduplicated
  /\ Len(input.qaPairs) = 3
  /\ NormalizeQuestion(input.qaPairs[1].question) = NormalizeQuestion(input.qaPairs[3].question)
  /\ NormalizeQuestion(input.qaPairs[1].question) # NormalizeQuestion(input.qaPairs[2].question)
  /\ input.qaPairs[1].question # input.qaPairs[3].question
  /\ Len(output) = 2

\* C14: the output holds exactly one entry per distinct normalized question of
\* the input, no other question, and each entry carries the answer of the last
\* input occurrence of its question.
C14_OnePerQuestionLastAnswer ==
  Deduplicated
    => /\ \A i, j \in 1..Len(output) :
            i # j => NormalizedQuestions(output)[i] # NormalizedQuestions(output)[j]
       /\ {NormalizedQuestions(output)[i] : i \in 1..Len(output)}
            = {NormalizedQuestions(input.qaPairs)[i] : i \in 1..Len(input.qaPairs)}
       /\ \A i \in 1..Len(output) :
            output[i].answer
              = input.qaPairs[MaxOf({j \in 1..Len(input.qaPairs) :
                               NormalizedQuestions(input.qaPairs)[j] = NormalizedQuestions(output)[i]})].answer

\* A question occurs twice, differently written and with different answers.
C14_Witness ==
  /\ Deduplicated
  /\ \E i, j \in 1..Len(input.qaPairs) :
        /\ i < j
        /\ input.qaPairs[i].question # input.qaPairs[j].question
        /\ NormalizeQuestion(input.qaPairs[i].question) = NormalizeQuestion(input.qaPairs[j].question)
        /\ input.qaPairs[i].answer # input.qaPairs[j].answer
  /\ Len(output) < Len(input.qaPairs)

\* C15: the Deduplicator run on its own output returns that output.
C15_Idempotent ==
  (Deduplicated /\ last.kind = "again") => output = input.qaPairs

\* The second run was given the two-entry output of the first run.
C15_Witness ==
  /\ Deduplicated
  /\ last.kind = "again"
  /\ Len(input.qaPairs) = 2
  /\ output = input.qaPairs

Extracted ==
  last.op = "parseQAPairsFromContent"

Rendered ==
  last.op = "AssistantMessage"

SplitDone ==
  last.op = "extractCounterpartyMessage"

\* The text has a numbered entry followed by an answer (the disclosed shape).
HasFullEntry(s) ==
  \E p \in 1..Len(s) : QAAt(s, p) # Null

\* The text has a numbered entry.
HasEntry(s) ==
  \E p \in 1..Len(s) : EntryAt(s, p) # Null

\* C16: a text whose Q/A part (the text without its counterparty addendum)
\* holds a disclosed header, an entry of the disclosed shape and a teaser header
\* extracts in full mode, and its items are the disclosed-pattern entries.
C16_DisclosedTakesPrecedence ==
  (/\ Extracted
   /\ HasKind(QAContent(input.content), "full")
   /\ HasFullEntry(QAContent(input.content))
   /\ HasKind(QAContent(input.content), "teaser"))
    => /\ output # Null
       /\ output[1].mode = "full"
       /\ output[1].qaPairs = FullPairs(QAContent(input.content), 1)

\* A teaser header comes first, a disclosed header and then an entry with its
\* answer follow: the extraction is in full mode.
C16_Witness ==
  /\ Extracted
  /\ input.content # <<>>
  /\ input.content[1].k = "teaser"
  /\ HasKind(QAContent(input.content), "full")
  /\ HasFullEntry(QAContent(input.content))
  /\ output # Null
  /\ output[1].mode = "full"
  /\ output[1].qaPairs[1] = [question |-> <<Word("Pets?")>>, answer |-> <<Word("Yes")>>]

\* The Q/A part of the text has a disclosed header and no entry of the disclosed
\* shape, or a teaser header and no entry, or no header.
NoExtractionExpected(content) ==
  LET q == QAContent(content)
  IN \/ HasKind(q, "full") /\ ~HasFullEntry(q)
     \/ HasKind(q, "teaser") /\ ~HasEntry(q)
     \/ ~HasKind(q, "full") /\ ~HasKind(q, "teaser")

\* C17: a text with a header and no entry of the header's shape, or with no
\* header, yields no extraction, and AssistantMessage renders the whole text of
\* such a message (unless the text is blank or "null").
C17_NoEntriesNoExtraction ==
  /\ (Extracted /\ NoExtractionExpected(input.content)) => output = Null
  /\ (Rendered /\ NoExtractionExpected(input.content))
       => \/ output = Some(input.content)
          \/ toLowerCase(trim(input.content)) \in {<<>>, <<Word("null")>>}

\* A text with a disclosed header and entries, none of them followed by an
\* answer, is rendered whole.
C17_Witness ==
  /\ Rendered
  /\ HasKind(QAContent(input.content), "full")
  /\ HasEntry(QAContent(input.content))
  /\ ~HasFullEntry(QAContent(input.content))
  /\ output = Some(input.content)

\* The party the claim expects for the header party v and the hint h.
ExpectedParty(v, h) ==
  IF v \in {"buyer", "Buyer"} THEN "buyer"
  ELSE IF v \in {"seller", "SELLER"} THEN "seller"
  ELSE IF h = Some(<<Word("buyer")>>) THEN "buyer"
  ELSE IF h = Some(<<SP, Word("SELLER"), SP>>) THEN "seller"
  ELSE "buyer"

\* C18: the party of an extraction is the header's party when that is buyer or
\* seller, else the hint when it normalizes to one of the two, else buyer.
C18_PartyResolution ==
  (Extracted /\ output # Null)
    => output[1].opposingParty
         = ExpectedParty(FirstOfKind(QAContent(input.content), output[1].mode).v,
                         input.opposingPartyHint)

\* A generic header and a hint that needs trimming and case folding.
C18_Witness ==
  /\ Extracted
  /\ output # Null
  /\ FirstOfKind(QAContent(input.content), output[1].mode).v = "Opposing Party"
  /\ input.opposingPartyHint = Some(<<SP, Word("SELLER"), SP>>)
  /\ output[1].opposingParty = "seller"

\* C19: every item of a full-mode extraction has a non-empty question and a
\* non-empty answer, and every item of a teaser-mode extraction has an empty
\* answer.
C19_EmptyAnswerOnlyInTeaser ==
  (Extracted /\ output # Null)
    => \A i \in 1..Len(output[1].qaPairs) :
         IF output[1].mode = "full"
         THEN output[1].qaPairs[i].question # <<>> /\ output[1].qaPairs[i].answer # <<>>
         ELSE output[1].qaPairs[i].answer = <<>>

\* The last "\n\n"-separated segment of a text.
LastSegment(s) ==
  IF DoubleNewlines(s) = {} THEN s
  ELSE SubSeqOrEmpty(s, MaxOf(DoubleNewlines(s)) + 2, Len(s))

StartsWithMarker(s) ==
  s # <<>> /\ s[1].k = "marker"

\* C20 as stated: the splitter returns the trimmed last segment when that
\* segment starts with the marker, and none in every other case.
C20_LastSegmentWithMarker ==
  SplitDone
    => output = IF StartsWithMarker(LastSegment(input.content))
                THEN Some(trim(LastSegment(input.content)))
                ELSE Null

\* C20 as amended: the splitter returns the trimmed text after the last "\n\n"
\* when that text starts with the marker; it returns none when the text has no
\* "\n\n" and when the trimmed text after the last "\n\n" does not start with
\* the marker; whatever it returns is the trimmed text after the last "\n\n".
C20_MarkerAfterLastBreak ==
  SplitDone
    => /\ (DoubleNewlines(input.content) # {} /\ StartsWithMarker(LastSegment(input.content)))
            => output = Some(trim(LastSegment(input.content)))
       /\ (DoubleNewlines(input.content) = {}
            \/ ~StartsWithMarker(trim(LastSegment(input.content))))
            => output = Null
       /\ output # Null => output = Some(trim(LastSegment(input.content)))

\* A Q/A block, a "\n\n" and a last segment that starts with the marker.
C20_Witness ==
  /\ SplitDone
  /\ HasKind(input.content, "full")
  /\ StartsWithMarker(LastSegment(input.content))
  /\ output = Some(LastSegment(input.content))

OnePair ==
  <<[question |-> <<Word("Pets?")>>, answer |-> <<Word("Yes")>>]>>

\* C21 as stated: on the text of an entry, its answer and an addendum, with no
\* header line, extraction finds exactly the one pair and the splitter returns
\* the addendum.
C21_HeaderlessIsolation ==
  /\ (Extracted /\ input.content = HeaderlessBlock)
       => (output # Null /\ output[1].qaPairs = OnePair)
  /\ (SplitDone /\ input.content = HeaderlessBlock) => output = Some(Addendum)

\* C21 as amended: under a disclosed header the same text extracts to exactly
\* the one pair; without the header the extraction is none; the splitter returns
\* the addendum in both cases.
C21_HeadedIsolation ==
  /\ (Extracted /\ input.content = HeadedBlock)
       => (output # Null /\ output[1].qaPairs = OnePair /\ output[1].mode = "full")
  /\ (Extracted /\ input.content = HeaderlessBlock) => output = Null
  /\ (SplitDone /\ input.content \in {HeaderlessBlock, HeadedBlock})
       => output = Some(Addendum)

\* The headed text has been extracted to its one pair.
C21_Witness ==
  /\ Extracted
  /\ input.content = HeadedBlock
  /\ output # Null
  /\ output[1].qaPairs = OnePair

\* The text before the final "\n\n".
BeforeLastBreak(s) ==
  SubSeqOrEmpty(s, 1, MaxOf(DoubleNewlines(s)) - 1)

\* The text ends in an addendum: its last "\n\n"-separated segment, not the
\* only one, starts with the marker.
HasAddendum(s) ==
  DoubleNewlines(s) # {} /\ StartsWithMarker(LastSegment(s))

\* The text holds a header and an entry of the shape of the header's mode.
HasBlock(s) ==
  \/ HasKind(s, "full") /\ HasFullEntry(s)
  \/ ~HasKind(s, "full") /\ HasKind(s, "teaser") /\ HasEntry(s)

\* Every token of the items comes from elsewhere than a counterparty message.
MarkerFree(qaPairs) ==
  \A i \in 1..Len(qaPairs) :
    ~HasKind(qaPairs[i].question, "marker") /\ ~HasKind(qaPairs[i].answer, "marker")

\* C22: of a text that ends in an addendum, the extraction is that of the text
\* before the final "\n\n" alone (its header is found there and no item holds
\* text of the addendum); when that text holds a Q/A block, AssistantMessage
\* shows the addendum and nothing else.
C22_AddendumIsolated ==
  /\ (Extracted /\ HasAddendum(input.content))
       => /\ output = ParseQAContent(BeforeLastBreak(input.content),
                                     input.opposingPartyHint)
          /\ output # Null
               => /\ HasKind(BeforeLastBreak(input.content), output[1].mode)
                  /\ MarkerFree(output[1].qaPairs)
  /\ (Rendered /\ HasAddendum(input.content) /\ HasBlock(BeforeLastBreak(input.content)))
       => output = Some(trim(LastSegment(input.content)))

\* A disclosed block followed by an addendum is rendered as the addendum.
C22_Witness ==
  /\ Rendered
  /\ input.content = HeadedBlock
  /\ HasAddendum(input.content)
  /\ HasBlock(BeforeLastBreak(input.content))
  /\ output = Some(Addendum)

\* The positions of a list whose message the transcript may keep: no
\* do-not-render id, no tool result, and no later message of the same identity.
LastPositions(l) ==
  {p \in 1..Len(l) :
     /\ ~startsWithDoNotRender(l[p].id)
     /\ l[p].type # "tool"
     /\ l[p].id = "" \/ \A q \in (p + 1)..Len(l) : l[q].id # l[p].id}

\* The i-th smallest element of a set of numbers.
NthOf(P, i) ==
  CHOOSE p \in P : Cardinality({q \in P : q <= p}) = i

\* C23: the transcript holds no message with a do-not-render id and no tool
\* result, at most one entry per message identity, for each identity the entry
\* at its last position in the reconciled list, the entries in the order of the
\* list, and shows nothing for a message that is purely a Q/A block.
C23_TranscriptFilter ==
  last.op = "Transcript"
    => /\ \A i \in 1..Len(output) :
            /\ ~startsWithDoNotRender(output[i].message.id)
            /\ output[i].message.type # "tool"
       /\ \A i, j \in 1..Len(output) :
            (i # j /\ output[i].message.id # "")
              => output[i].message.id # output[j].message.id
       /\ Len(output) = Cardinality(LastPositions(messages))
       /\ \A i \in 1..Len(output) :
            output[i].message = messages[NthOf(LastPositions(messages), i)]
       /\ \A i \in 1..Len(output) :
            (/\ output[i].message.type # "human"
             /\ HasBlock(output[i].message.content)
             /\ ~HasAddendum(output[i].message.content))
              => output[i].shown = Null

\* A message is superseded by a later one of the same identity that is a Q/A
\* block, with a human turn in between: the transcript keeps the human turn and
\* then the later message, and shows nothing for the latter.
C23_Witness ==
  /\ last.op = "Transcript"
  /\ Len(messages) = 3
  /\ messages[1].id = messages[3].id
  /\ messages[1] # messages[3]
  /\ messages[2].type = "human"
  /\ Len(output) = 2
  /\ output[1].message = messages[2]
  /\ output[2].message = messages[3]
  /\ output[2].shown = Null

\* C24: a change of stream.error to an error with a message is notified exactly
\* when that message has not been notified since stream.error was last absent:
\* a repeat is suppressed, also after another message was notified in between,
\* and after the error clears every message is notified again.
C24_OncePerMessageUntilCleared ==
  [][(/\ last'.op = "StreamError"
      /\ streamError' # Null
      /\ streamError'[1].message # "")
       => (last'.toast <=> streamError'[1].message \notin errorToasts)]_vars

\* C25: a submission shows the reconciled list that was read at submit time
\* with the new human message appended.
C25_OptimisticExtendsTranscript ==
  [][last'.op = "Submit" => messages' = Append(messages, NewHumanMessage)]_vars

\* C26: a stream update or a change of isLoading leaves polledMessages (and the
\* poll change-hash) as it was, a poll response leaves streamMessages and
\* isLoading as they were, and polledMessages changes only on a poll response
\* or a session-key change.
C26_SingleWriterPerChannel ==
  [][/\ last'.op \in {"StreamStart", "StreamStop", "StreamAppend",
                      "StreamReplaceLast", "Submit"}
          => (polledMessages' = polledMessages /\ lastPollRef' = lastPollRef)
     /\ last'.op = "PollResolve"
          => (streamMessages' = streamMessages /\ isLoading' = isLoading)
     /\ polledMessages' # polledMessages
          => last'.op \in {"PollResolve", "SetThreadId"}]_vars

\* The stream has started while a polled snapshot is held.
C26_Witness ==
  /\ last.op = "StreamStart"
  /\ polledMessages # Null
  /\ streamMessages # <<>>

\* C27: issuing a poll and leaving it pending writes neither polledMessages
\* nor the cache nor the reconciled list, and while a poll is pending every
\* stream update, submission, session-key change and later poll is enabled
\* exactly as its own condition says.
C27_PendingPollBlocksNothing ==
  /\ ~ENABLED (/\ InitialTimeoutFires
                /\ \/ polledMessages' # polledMessages
                   \/ lastPollRef' # lastPollRef
                   \/ cachedQAPairs' # cachedQAPairs
                   \/ messages' # messages)
  /\ ~ENABLED (/\ PollIntervalFires
                /\ \/ polledMessages' # polledMessages
                   \/ lastPollRef' # lastPollRef
                   \/ cachedQAPairs' # cachedQAPairs
                   \/ messages' # messages)
  /\ inflight # EmptyBag
       => /\ (ENABLED StreamStart) <=> ~isLoading
          /\ (ENABLED StreamStop) <=> isLoading
          /\ (ENABLED Submit)
               <=> (/\ ~isLoading
                    /\ NewHumanMessage.id
                         \notin Ids(streamMessages) \cup Ids(OrEmpty(polledMessages)))
          /\ \A m \in Msgs :
               (ENABLED StreamAppend(m)) <=> m.id \notin Ids(streamMessages)
          /\ \A k \in (Keys \cup {None}) \ {threadId} : ENABLED SetThreadId(k)
          /\ BagCardinality(inflight) < MaxInflight
               => /\ (ENABLED PollIntervalFires) <=> pollInterval # Null
                  /\ (ENABLED InitialTimeoutFires) <=> initialTimeout # Null

\* A submission has been made while a poll was pending.
C27_Witness ==
  /\ last.op = "Submit"
  /\ inflight # EmptyBag

\* The entries of the transcript whose Q/A block AssistantMessage withholds:
\* the message is rendered by AssistantMessage and its text parses.
Withheld ==
  {i \in 1..Len(output) :
     /\ output[i].message.type # "human"
     /\ parsedMessage[output[i].message] # Null}

\* C28: every message whose Q/A block the transcript withholds is an assistant
\* message, and the summary extraction computed from the same list holds the
\* items extracted from it.
C28_WithheldIsSummarised ==
  last.op = "Transcript"
    => \A i \in Withheld :
         /\ output[i].message.type = "ai"
         /\ cachedQAPairs # Null
         /\ \A k \in 1..Len(deduplicateQAPairs(parsedMessage[output[i].message][1].qaPairs)) :
              \E n \in 1..Len(cachedQAPairs[1].qaPairs) :
                cachedQAPairs[1].qaPairs[n]
                  = deduplicateQAPairs(parsedMessage[output[i].message][1].qaPairs)[k]

\* C29: a poll response fetched for a session key that is no longer the
\* current one never changes the cache: the cache of the new session never
\* comes to hold an extraction from a message of the previous session.
C29_NoCacheLeakAcrossSessions ==
  [][(last'.op = "PollResolve" /\ threadId' \in Keys /\ last'.key # threadId')
       => cachedQAPairs' = cachedQAPairs]_vars

\* C30: when two polls of one session are in flight and their responses
\* arrive in the reverse of the order of issue, the response of the poll issued
\* first does not replace the snapshot: polledMessages keeps the snapshot of
\* the poll issued later. The poll issued first is the one whose settling takes
\* a fetch out of overtaken.
C30_OlderSnapshotNeverOverwrites ==
  [][(/\ last'.op = "PollResolve"
      /\ last'.key = threadId'
      /\ CopiesIn(last'.key, overtaken') < CopiesIn(last'.key, overtaken))
       => polledMessages' = polledMessages]_vars

\* The server's list is one the reconciler prefers to the idle stream list: it
\* is longer, or as long, non-empty and with another last content.
PolledPreferred(polledList, streamList) ==
  \/ Len(polledList) > Len(streamList)
  \/ /\ Len(polledList) = Len(streamList)
     /\ Len(polledList) > 0
     /\ LastContent(polledList) # LastContent(streamList)

\* C31 as stated: with the session open, the stream idle on a fixed list and
\* every poll succeeding with a fixed list S, the reconciled list eventually
\* equals S for good whenever S is non-empty and differs from the stream list.
C31_ConvergesWhenDifferent ==
  <>[]((serverHistory[1] # <<>> /\ serverHistory[1] # streamMessages)
         => messages = serverHistory[1])

\* C31 as amended: the reconciled list eventually equals S for good whenever S
\* is longer than the stream list, or as long as it, non-empty and with another
\* last content.
C31_ConvergesWhenPreferred ==
  <>[](PolledPreferred(serverHistory[1], streamMessages)
         => messages = serverHistory[1])

\* A poll has delivered a list that differs from the stream list and is
\* preferred to it, and the reconciled list is that list.
C31_Witness ==
  /\ serverHistory # Null
  /\ last.op = "PollResolve"
  /\ serverHistory[1] # streamMessages
  /\ PolledPreferred(serverHistory[1], streamMessages)
  /\ polledMessages = serverHistory
  /\ messages = serverHistory[1]

\* C32: a poll response that succeeds with a non-empty list leaves
\* polledMessages holding that list and lastPollRef its fingerprint, and it
\* replaces polledMessages only if its fingerprint differs from lastPollRef;
\* every other response leaves both as they were. lastPollRef is the
\* fingerprint of the list polledMessages holds and is empty when it holds
\* none; a session-key change empties both, and a response with a non-empty
\* list that arrives while the fingerprint is empty is applied.
C32_AppliedOnlyWhenFingerprintDiffers ==
  [][/\ (polledMessages = Null => lastPollRef = <<>>)
     /\ (polledMessages # Null => lastPollRef = Hash(polledMessages[1]))
     /\ (last'.op = "PollResolve" /\ last'.kind = "messages")
          => /\ polledMessages' # Null
             /\ polledMessages'[1] # <<>>
             /\ lastPollRef' = Hash(polledMessages'[1])
             /\ (polledMessages' # polledMessages <=> lastPollRef' # lastPollRef)
             /\ (lastPollRef = <<>> => polledMessages' # polledMessages)
     /\ (last'.op = "PollResolve" /\ last'.kind = "failed")
          => (polledMessages' = polledMessages /\ lastPollRef' = lastPollRef)
     /\ last'.op = "SetThreadId"
          => (polledMessages' = Null /\ lastPollRef' = <<>>)]_vars

\* A response fetched for the current key has been applied: the snapshot held
\* is its list, the fingerprint is that of the list, and the reconciled list
\* is the snapshot.
C32_Witness ==
  /\ last.op = "PollResolve"
  /\ last.kind = "messages"
  /\ last.key = threadId
  /\ polledMessages # Null
  /\ lastPollRef = Hash(polledMessages[1])
  /\ messages = polledMessages[1]

C34_RejectedSubmitChangesNothing ==
  (/\ last.op = "handleSubmit"
   /\ \/ input.form[1].isLoading
      \/ /\ \A i \in 1..Len(input.content) : input.content[i].k \in {"sp", "nl"}
         /\ input.form[1].contentBlocks = <<>>)
    => /\ output.submitted = Null
       /\ output.input = input.content
       /\ output.contentBlocks = input.form[1].contentBlocks
       /\ output.messages = input.messages
       /\ output.firstTokenReceived = input.form[1].firstTokenReceived

\* A submission with a text and an attachment made while the stream is loading
\* and the first token has been received: nothing is sent and all is kept.
C34_Witness ==
  /\ last.op = "handleSubmit"
  /\ input.form[1].isLoading
  /\ input.form[1].firstTokenReceived
  /\ \E i \in 1..Len(input.content) : input.content[i].k \notin {"sp", "nl"}
  /\ input.form[1].contentBlocks # <<>>
  /\ input.messages # <<>>
  /\ output.submitted = Null
  /\ output.input = input.content
  /\ output.firstTokenReceived

\* C35: whether parseQAPairsFromContent returns none, and the pairs and the
\* mode of what it returns, are the same for every hint, the absent hint of
\* AssistantMessage included; only the party may differ.
C35_HintDecidesPartyOnly ==
  last.op = "parseQAPairsFromContent"
    => \A hint \in Hints :
         LET other == parseQAPairsFromContent(input.content, hint)
         IN /\ (other = Null) <=> (output = Null)
            /\ output # Null
                 => /\ other[1].qaPairs = output[1].qaPairs
                    /\ other[1].mode = output[1].mode

\* A text is parsed with a hint that decides the party: without the hint the
\* same pairs are returned for another party.
C35_Witness ==
  /\ last.op = "parseQAPairsFromContent"
  /\ input.opposingPartyHint # Null
  /\ output # Null
  /\ parseQAPairsFromContent(input.content, Null) # Null
  /\ parseQAPairsFromContent(input.content, Null)[1].opposingParty # output[1].opposingParty
  /\ parseQAPairsFromContent(input.content, Null)[1].qaPairs = output[1].qaPairs

====
